---------------------------- MODULE Spec2Model ----------------------------
(***************************************************************************)
(* A model of retropass, a codec for the progress passwords of old console *)
(* games.  Modelled: the bit-order index helper of src/src/util.py and,    *)
(* from src/src/retropass/password.py, the bit structure with named        *)
(* fields, the structured-checksum codecs (Metroid, Kid Icarus) and the    *)
(* combinatorial-cell codec (Mega Man 2).                                  *)
(*                                                                         *)
(* Conventions.  A Python sequence s[0..n-1] is the TLA+ sequence          *)
(* s[1..n]: Python index i is TLA+ index i + 1.  A bitarray is the         *)
(* sequence of its bits in index order; its endianness is carried by the   *)
(* operator applied to it (...Little, ...Big), as each use in the source   *)
(* fixes it.  A text is a sequence of one-character strings.  An           *)
(* operation that raises returns a record with ok = FALSE and the          *)
(* exception's name in err.                                                *)
(***************************************************************************)
EXTENDS Integers, Sequences, FiniteSets, TLC

VARIABLES
    pw,      \* the structured-checksum password object (Metroid, Kid Icarus)
    made,    \* history: the text pw was constructed from, and whether it was set since
    mm,      \* the combinatorial-cell password object (Mega Man 2)
    idx,     \* the bit index held by a caller of flip_idx_bitorder
    trail,   \* history: the indexes idx went through
    last     \* history: the last operation, its arguments and its outcome

vars == <<pw, made, mm, idx, trail, last>>

(***************************************************************************)
(* Bounds of the model.                                                    *)
(***************************************************************************)
MaxFlipSteps == 2      \* calls of flip_idx_bitorder chained on one index
MaxMM2Sets   == 2      \* writes to one Mega Man 2 password

(***************************************************************************)
(* Values standing for "no object" and "no operation yet".                 *)
(***************************************************************************)
NoPw   == [state |-> "none", gid |-> "none", data |-> <<>>, shift |-> 0]
NoMade == [gid |-> "none", text |-> <<>>, fresh |-> FALSE, flipped |-> FALSE]
NoMM   == [state |-> "none", tanks |-> 0, defeated |-> <<>>]
NoLast == [op |-> "none"]

(***************************************************************************)
(* Bit arrays.  The source uses the bitarray library: int2ba, ba2int,      *)
(* tobytes, slicing, and bitarray(other, endian).  Each is modelled by     *)
(* what the library computes at the call the source makes.                 *)
(***************************************************************************)
Min(a, b) == IF a < b THEN a ELSE b
Max(a, b) == IF a > b THEN a ELSE b

RECURSIVE SumSeq(_)
SumSeq(s) == IF s = <<>> THEN 0 ELSE Head(s) + SumSeq(Tail(s))

RECURSIVE Flatten(_)
Flatten(ss) == IF ss = <<>> THEN <<>> ELSE Head(ss) \o Flatten(Tail(ss))

\* int2ba(value, length, endian) raises OverflowError for a value that is
\* negative or does not fit in length bits.
Int2BaOverflows(value, length) == value < 0 \/ value >= 2 ^ length

\* int2ba(value, length, 'little'): bit 0 of the value first.
Int2BaLittle(value, length) ==
    [i \in 1 .. length |-> (value \div 2 ^ (i - 1)) % 2]

\* int2ba(value, length, 'big'): the most significant bit first.
Int2BaBig(value, length) ==
    [i \in 1 .. length |-> (value \div 2 ^ (length - i)) % 2]

\* ba2int of a little-endian bitarray.
RECURSIVE Ba2IntLittle(_)
Ba2IntLittle(bits) ==
    IF bits = <<>> THEN 0 ELSE Head(bits) + 2 * Ba2IntLittle(Tail(bits))

\* ba2int of a big-endian bitarray.
RECURSIVE Ba2IntBig(_)
Ba2IntBig(bits) ==
    IF bits = <<>> THEN 0
    ELSE 2 * Ba2IntBig(SubSeq(bits, 1, Len(bits) - 1)) + bits[Len(bits)]

\* The bits padded with zeros to whole bytes, as the library's buffer holds them.
Padded(bits) ==
    bits \o [i \in 1 .. ((8 - (Len(bits) % 8)) % 8) |-> 0]

\* tobytes() of a little-endian bitarray: bit 8k + j has weight 2^j in byte k.
ToBytesLittle(bits) ==
    LET p == Padded(bits)
    IN  [k \in 1 .. (Len(p) \div 8) |->
            Ba2IntLittle(SubSeq(p, 8 * (k - 1) + 1, 8 * k))]

\* bitarray(other, endian) with the endianness opposite to other's: the new
\* array takes other's buffer, so within each byte the bit at offset j is
\* found at offset 7 - j (tests/test_passwords.py fixes this reading: with
\* the bits kept in index order '0G0000 ...' would read 'W00000 ...').
OtherEndian(bits) ==
    LET p == Padded(bits)
    IN  [i \in 1 .. Len(bits) |-> p[8 * ((i - 1) \div 8) + (8 - ((i - 1) % 8))]]

\* Python's seq[start:stop] for 0 <= start, stop (clamped to the length).
Slice(seq, start, stop) ==
    SubSeq(seq, Min(start, Len(seq)) + 1, Min(stop, Len(seq)))

\* Python's seq[start:stop] = bits: the slice is replaced by bits, whatever
\* their length.
SliceAssign(seq, start, stop, bits) ==
    LET lo == Min(start, Len(seq))
        hi == Max(lo, Min(stop, Len(seq)))
    IN  SubSeq(seq, 1, lo) \o bits \o SubSeq(seq, hi + 1, Len(seq))

\* retropass.util.rotate (imported at password.py:10): the sequence rotated
\* left by n positions.
rotate(seq, n) ==
    IF seq = <<>> THEN seq
    ELSE LET k == n % Len(seq)
         IN  SubSeq(seq, k + 1, Len(seq)) \o SubSeq(seq, 1, k)

\* retropass.util.chunk (imported at password.py:10): the sequence cut into
\* groups of size elements, the last one shorter when they do not divide.
chunk(seq, size) ==
    [k \in 1 .. ((Len(seq) + size - 1) \div size) |->
        SubSeq(seq, size * (k - 1) + 1, Min(size * k, Len(seq)))]

(***************************************************************************)
(* Text codecs (src/src/retropass/text.py).  A game's table maps each of   *)
(* its characters to one code and back; the tables themselves              *)
(* (plugins/<gid>.tbl) are data outside the source at hand, so the two     *)
(* alphabets are the games' own, which tests/test_passwords.py agrees      *)
(* with ('0' is 0, 'G' 16, 'H' 17, 'n' 49).                                *)
(***************************************************************************)
Digits == <<"0", "1", "2", "3", "4", "5", "6", "7", "8", "9">>
Upper  == <<"A", "B", "C", "D", "E", "F", "G", "H", "I", "J", "K", "L", "M",
            "N", "O", "P", "Q", "R", "S", "T", "U", "V", "W", "X", "Y", "Z">>
Lower  == <<"a", "b", "c", "d", "e", "f", "g", "h", "i", "j", "k", "l", "m",
            "n", "o", "p", "q", "r", "s", "t", "u", "v", "w", "x", "y", "z">>

Alphabet(gid) ==
    IF gid = "metroid" THEN Digits \o Upper \o Lower \o <<"?", "-">>
    ELSE Digits \o Upper \o Lower \o <<"!", "?">>

Range(f) == {f[x] : x \in DOMAIN f}

\* str.encode(gid): the code of each character; a character the table lacks
\* is a lookup error.
Encodable(gid, text) == \A i \in DOMAIN text : text[i] \in Range(Alphabet(gid))

TextEncode(gid, text) ==
    [i \in DOMAIN text |->
        (CHOOSE c \in DOMAIN Alphabet(gid) : Alphabet(gid)[c] = text[i]) - 1]

\* bytes.decode(gid): the character of each code.
TextDecode(gid, codes) == [i \in DOMAIN codes |-> Alphabet(gid)[codes[i] + 1]]

(***************************************************************************)
(* Field (password.py:21-67) and the games' field tables.  The tables      *)
(* (game/<gid>.tsv) are data outside the source at hand.  The Metroid rows *)
(* are the ones tests/test_passwords.py pins down (test_known_password_1   *)
(* and _2), with the last bit of the payload added; the Kid Icarus rows    *)
(* are the fields KidIcarusPassword.level names, with a numeric offset on  *)
(* one of them and a byte-wide field.                                      *)
(***************************************************************************)
Field(offset, width, mod) == [offset |-> offset, width |-> width, mod |-> mod]

MetroidFields ==
    [taken_marumari |-> Field(0, 1, 0),
     unarmored      |-> Field(71, 1, 0),
     has_marumari   |-> Field(76, 1, 0),
     missiles       |-> Field(80, 8, 0),
     reset          |-> Field(127, 1, 0)]

KidIcarusFields ==
    [stage    |-> Field(0, 2, 1),
     substage |-> Field(2, 2, 0),
     maze     |-> Field(4, 1, 0),
     hearts   |-> Field(128, 8, 0)]

Fields(gid) == IF gid = "metroid" THEN MetroidFields ELSE KidIcarusFields

\* A variant of FieldSlice: the slice stops one bit early.
FieldSlice_Short(f) == [start |-> f.offset, stop |-> f.offset + f.width - 1]

\* Field.slice: slice(offset, offset + width).
FieldSlice(f) == [start |-> f.offset, stop |-> f.offset + f.width]

(***************************************************************************)
(* Results of an operation: ok with the object (and value) it leaves, or   *)
(* the exception it raised with the object as it then is.                  *)
(***************************************************************************)
Raise(err, why, obj) == [ok |-> FALSE, err |-> err, why |-> why, obj |-> obj, val |-> 0]
Return(obj, val)     == [ok |-> TRUE, err |-> "", why |-> "", obj |-> obj, val |-> val]

\* The argument password=None.
None == <<"None">>

\* '0' * 24
DefaultText == [i \in 1 .. 24 |-> "0"]

\* password.strip().replace(' ', '')
StripSpaces(text) == SelectSeq(text, LAMBDA c : c # " ")

(***************************************************************************)
(* MetroidPassword (password.py:184-231).                                  *)
(***************************************************************************)
\* Variants of MetroidChecksum: one leaves the shift out of the sum, one
\* keeps seven bits of it.
MetroidChecksum_NoShift(data, shift) == SumSeq(ToBytesLittle(data)) % 256

MetroidChecksum_SevenBits(data, shift) == (SumSeq(ToBytesLittle(data)) + shift) % 128

MetroidChecksum(data, shift) == (SumSeq(ToBytesLittle(data)) + shift) % 256

MetroidInit(arg) ==
    LET password == StripSpaces(IF arg = None THEN DefaultText ELSE arg)
    IN  IF Len(password) # 24 THEN Raise("InvalidPassword", "wrong length", NoPw)
        ELSE IF ~Encodable("metroid", password) THEN Raise("LookupError", "", NoPw)
        ELSE
            LET codes    == TextEncode("metroid", password)
                data     == Flatten([i \in DOMAIN codes |-> Int2BaBig(codes[i], 6)])
                n        == Len(data)
                payload  == OtherEndian(Slice(data, 0, n - 16))
                shift    == Ba2IntBig(Slice(data, n - 16, n - 8))
                checksum == Ba2IntBig(Slice(data, n - 8, n))
                obj      == [state |-> "live", gid |-> "metroid",
                             data |-> payload, shift |-> shift]
            IN  IF MetroidChecksum(payload, shift) # checksum
                THEN Raise("InvalidPassword", "checksum failure", NoPw)
                ELSE Return(obj, 0)

MetroidBits(obj) ==
    rotate(obj.data, obj.shift)
        \o Int2BaLittle(obj.shift, 8)
        \o Int2BaLittle(MetroidChecksum(obj.data, obj.shift), 8)

MetroidCodepoints(obj) ==
    LET groups == chunk(OtherEndian(MetroidBits(obj)), 6)
    IN  [k \in DOMAIN groups |-> Ba2IntBig(groups[k])]

(***************************************************************************)
(* KidIcarusPassword (password.py:234-279).                                *)
(***************************************************************************)
KidIcarusChecksum(data) == SumSeq(ToBytesLittle(data)) % 256

KidIcarusInit(arg) ==
    LET password == StripSpaces(IF arg = None THEN DefaultText ELSE arg)
    IN  IF Len(password) # 24 THEN Raise("InvalidPassword", "wrong length", NoPw)
        ELSE IF ~Encodable("ki", password) THEN Raise("LookupError", "", NoPw)
        ELSE
            LET codes    == TextEncode("ki", password)
                data     == Flatten([i \in DOMAIN codes |-> Int2BaLittle(codes[i], 6)])
                n        == Len(data)
                payload  == Slice(data, 0, n - 8)
                checksum == Ba2IntLittle(Slice(data, n - 8, n))
                obj      == [state |-> "live", gid |-> "ki",
                             data |-> payload, shift |-> 0]
            IN  IF KidIcarusChecksum(payload) # checksum
                THEN Raise("InvalidPassword", "checksum failure", NoPw)
                ELSE Return(obj, 0)

KidIcarusBits(obj) ==
    obj.data \o Int2BaLittle(KidIcarusChecksum(obj.data), 8)

KidIcarusCodepoints(obj) ==
    LET groups == chunk(KidIcarusBits(obj), 6)
    IN  [k \in DOMAIN groups |-> Ba2IntLittle(groups[k])]

(***************************************************************************)
(* What the two classes share: construction by game id (Password.make),    *)
(* the checksum property and __str__ (Kid Icarus inherits Metroid's).      *)
(***************************************************************************)
Make(gid, arg) == IF gid = "metroid" THEN MetroidInit(arg) ELSE KidIcarusInit(arg)

Checksum(obj) ==
    IF obj.gid = "metroid" THEN MetroidChecksum(obj.data, obj.shift)
    ELSE KidIcarusChecksum(obj.data)

Codepoints(obj) ==
    IF obj.gid = "metroid" THEN MetroidCodepoints(obj) ELSE KidIcarusCodepoints(obj)

\* ' '.join(groups)
RECURSIVE Join(_, _)
Join(groups, sep) ==
    IF groups = <<>> THEN <<>>
    ELSE IF Len(groups) = 1 THEN groups[1]
    ELSE groups[1] \o <<sep>> \o Join(Tail(groups), sep)

Str(obj) == Join(chunk(TextDecode(obj.gid, Codepoints(obj)), 6), " ")

(***************************************************************************)
(* Structure (password.py:131-181): fields read and written by name, as    *)
(* attributes (pw.name) or as items (pw[name]), on an initialized object.  *)
(***************************************************************************)
\* A variant of StructGetattr: the field's numeric offset is not added back.
StructGetattr_NoMod(obj, name) ==
    IF name \notin DOMAIN Fields(obj.gid)
    THEN Raise("AttributeError", "No such field", obj)
    ELSE LET field == Fields(obj.gid)[name]
             sl    == FieldSlice(field)
             bits  == Slice(obj.data, sl.start, sl.stop)
         IN  IF bits = <<>> THEN Raise("ValueError", "non-empty bitarray expected", obj)
             ELSE Return(obj, Ba2IntLittle(bits))

StructGetattr(obj, name) ==
    IF name \notin DOMAIN Fields(obj.gid)
    THEN Raise("AttributeError", "No such field", obj)
    ELSE LET field == Fields(obj.gid)[name]
             sl    == FieldSlice(field)
             bits  == Slice(obj.data, sl.start, sl.stop)
         IN  IF bits = <<>> THEN Raise("ValueError", "non-empty bitarray expected", obj)
             ELSE Return(obj, Ba2IntLittle(bits) + field.mod)

\* A variant of StructSetattr: the value is cut to the field's width instead
\* of being refused.
StructSetattr_Truncating(obj, name, v) ==
    IF name \notin DOMAIN Fields(obj.gid)
    THEN Raise("AttributeError", "No such field", obj)
    ELSE LET field == Fields(obj.gid)[name]
             value == (v - field.mod) % (2 ^ field.width)
             sl    == FieldSlice(field)
         IN  Return([obj EXCEPT !.data =
                        SliceAssign(obj.data, sl.start, sl.stop,
                                    Int2BaLittle(value, field.width))], 0)

StructSetattr(obj, name, v) ==
    IF name \notin DOMAIN Fields(obj.gid)
    THEN Raise("AttributeError", "No such field", obj)
    ELSE LET field  == Fields(obj.gid)[name]
             value  == v - field.mod
             length == field.width
             sl     == FieldSlice(field)
         IN  IF Int2BaOverflows(value, length)
             THEN Raise("OverflowError", "", obj)
             ELSE Return([obj EXCEPT !.data =
                            SliceAssign(obj.data, sl.start, sl.stop,
                                        Int2BaLittle(value, length))], 0)

StructGetitem(obj, name) ==
    IF name \notin DOMAIN Fields(obj.gid)
    THEN Raise("KeyError", "No such field", obj)
    ELSE StructGetattr(obj, name)

StructSetitem(obj, name, v) ==
    IF name \notin DOMAIN Fields(obj.gid)
    THEN Raise("KeyError", "No such field", obj)
    ELSE StructSetattr(obj, name, v)

(***************************************************************************)
(* The inputs of the structured-checksum model.                            *)
(***************************************************************************)
\* The passwords of tests/test_passwords.py, test_password_roundtrip.
Known1 == << "0","0","0","0","0","0"," ","0","0","0","0","0","0"," ",
             "0","0","0","0","0","0"," ","0","0","0","0","0","0" >>
Known2 == << "0","G","0","0","0","0"," ","0","0","0","0","0","0"," ",
             "4","0","0","0","0","0"," ","0","0","0","0","0","H" >>
Known3 == << "G","G","W","0","1","G"," ","0","0","0","0","2","0"," ",
             "V","s","G","0","0","0"," ","0","0","0","0","2","n" >>

\* Texts that are not 24 characters of the alphabet once stripped.
Malformed ==
    { <<>>, SubSeq(Known2, 1, 26), Known2 \o <<"0">>,
      [Known2 EXCEPT ![1] = "#"] }

\* A text written from a payload with one byte set, a shift byte and a
\* checksum byte that is off the payload's by delta.  Metroid packs the
\* bytes most significant bit first, Kid Icarus (no shift byte) least
\* significant bit first.
SeedBytes(n, seed) == [k \in 1 .. n |-> IF k = seed[1] + 1 THEN seed[2] ELSE 0]

TextOfBytesBig(gid, bytes) ==
    LET groups == chunk(Flatten([k \in DOMAIN bytes |-> Int2BaBig(bytes[k], 8)]), 6)
    IN  TextDecode(gid, [k \in DOMAIN groups |-> Ba2IntBig(groups[k])])

TextOfBytesLittle(gid, bytes) ==
    LET groups == chunk(Flatten([k \in DOMAIN bytes |-> Int2BaLittle(bytes[k], 8)]), 6)
    IN  TextDecode(gid, [k \in DOMAIN groups |-> Ba2IntLittle(groups[k])])

Seeds           == { <<0, 0>>, <<0, 1>>, <<8, 255>>, <<9, 16>>, <<10, 100>>, <<15, 128>> }
ShiftInputs     == { 0, 1, 8, 127, 200 }
ChecksumOffsets == { 0, 1, 255 }

MetroidTexts ==
    { TextOfBytesBig("metroid",
          SeedBytes(16, seed)
              \o << shift, (seed[2] + shift + delta) % 256 >>) :
        seed \in Seeds, shift \in ShiftInputs, delta \in ChecksumOffsets }

KidIcarusTexts ==
    { TextOfBytesLittle("ki",
          SeedBytes(17, seed) \o << (seed[2] + delta) % 256 >>) :
        seed \in Seeds \cup { <<16, 3>> }, delta \in ChecksumOffsets }

\* What the codec model constructs passwords from.
CodecArgs(gid) ==
    { None, Known1, Known2, Known3, StripSpaces(Known3) } \cup Malformed
        \cup (IF gid = "metroid" THEN MetroidTexts ELSE KidIcarusTexts)

\* What the field model constructs passwords from.
FieldArgs(gid) ==
    { None, [Known2 EXCEPT ![1] = "#"] } \cup
        (IF gid = "metroid"
         THEN { Known3, TextOfBytesBig("metroid", SeedBytes(16, <<0, 1>>) \o <<1, 2>>) }
         ELSE { TextOfBytesLittle("ki", SeedBytes(17, <<16, 3>>) \o <<3>>) })

Games      == { "metroid", "ki" }
\* The names a caller asks for: the game's fields and one no game has.
FieldNames(gid) == (DOMAIN Fields(gid)) \cup { "nosuch" }

\* The values a caller writes: the ends of the field's range, the values
\* next to them on the outside, and 1.
SetValues(gid, name) ==
    IF name \notin DOMAIN Fields(gid) THEN { 0, 1 }
    ELSE LET f == Fields(gid)[name]
         IN  { f.mod - 1, f.mod, f.mod + 2 ^ f.width - 1, f.mod + 2 ^ f.width, 1 }
Access     == { "attr", "item" }

(***************************************************************************)
(* The structured-checksum model: a caller constructs a password           *)
(* (Password.make), reads and writes its fields and prints it.             *)
(***************************************************************************)
InitStruct ==
    /\ pw = NoPw /\ made = NoMade /\ last = NoLast
    /\ mm = NoMM /\ idx = 0 /\ trail = <<>>

\* One construction per run: a construction that raises leaves no object.
MakeFrom(gid, args) ==
    /\ made = NoMade
    /\ \E arg \in args :
        LET r == Make(gid, arg)
        IN  /\ pw' = r.obj
            /\ made' = [gid |-> gid, text |-> arg, fresh |-> r.ok, flipped |-> FALSE]
            /\ last' = [op |-> "make", gid |-> gid, text |-> arg,
                        ok |-> r.ok, err |-> r.err, why |-> r.why]
    /\ UNCHANGED <<mm, idx, trail>>

MakeCodec == \E gid \in Games : MakeFrom(gid, CodecArgs(gid))

MakeField == \E gid \in Games : MakeFrom(gid, FieldArgs(gid))

DoStr ==
    /\ pw.state = "live"
    /\ last' = [op |-> "str", out |-> Str(pw)]
    /\ UNCHANGED <<pw, made, mm, idx, trail>>

GetField ==
    /\ pw.state = "live"
    /\ \E via \in Access, name \in FieldNames(pw.gid) :
        LET r == IF via = "attr" THEN StructGetattr(pw, name)
                 ELSE StructGetitem(pw, name)
        IN  last' = [op |-> "get", gid |-> pw.gid, via |-> via, name |-> name,
                     ok |-> r.ok, err |-> r.err, val |-> r.val, before |-> pw]
    /\ UNCHANGED <<pw, made, mm, idx, trail>>

SetField ==
    /\ pw.state = "live"
    /\ \E via \in Access, name \in FieldNames(pw.gid) :
       \E v \in SetValues(pw.gid, name) :
        LET r == IF via = "attr" THEN StructSetattr(pw, name, v)
                 ELSE StructSetitem(pw, name, v)
        IN  /\ pw' = r.obj
            /\ made' = [made EXCEPT !.fresh = made.fresh /\ r.obj = pw]
            /\ last' = [op |-> "set", gid |-> pw.gid, via |-> via, name |-> name,
                        value |-> v, ok |-> r.ok, err |-> r.err, before |-> pw]
    /\ UNCHANGED <<mm, idx, trail>>

\* The checksum-sensitivity scenario: one bit of a constructed password's
\* payload is flipped, once.
FlipPayloadBit ==
    /\ pw.state = "live"
    /\ ~made.flipped
    /\ \E k \in 0 .. (Len(pw.data) - 1) :
        /\ pw' = [pw EXCEPT !.data[k + 1] = 1 - pw.data[k + 1]]
        /\ last' = [op |-> "flipbit", bit |-> k, before |-> pw]
    /\ made' = [made EXCEPT !.fresh = FALSE, !.flipped = TRUE]
    /\ UNCHANGED <<mm, idx, trail>>

NextCodec == MakeCodec \/ DoStr \/ FlipPayloadBit

SpecCodec == InitStruct /\ [][NextCodec]_vars

NextFields == MakeField \/ GetField \/ SetField \/ DoStr

SpecFields == InitStruct /\ [][NextFields]_vars

(***************************************************************************)
(* Properties of the structured-checksum codecs.                           *)
(***************************************************************************)
\* The text a construction reads: the argument, or the default for None.
TextRead(arg) == StripSpaces(IF arg = None THEN DefaultText ELSE arg)

\* The text in the layout __str__ prints: groups of 6 joined by spaces.
Canonical(text) == Join(chunk(StripSpaces(text), 6), " ")

\* Byte k (from 0) of a text's bit stream, from its codes by arithmetic:
\* four 6-bit codes hold three bytes, the first code's bits leading
\* (ByteBig, Metroid) or trailing (ByteLittle, Kid Icarus).
ByteBig(c, k) ==
    LET g == 4 * (k \div 3)
    IN  CASE k % 3 = 0 -> c[g + 1] * 4 + (c[g + 2] \div 16)
          [] k % 3 = 1 -> (c[g + 2] % 16) * 16 + (c[g + 3] \div 4)
          [] OTHER     -> (c[g + 3] % 4) * 64 + c[g + 4]

ByteLittle(c, k) ==
    LET g == 4 * (k \div 3)
    IN  CASE k % 3 = 0 -> c[g + 1] + (c[g + 2] % 4) * 64
          [] k % 3 = 1 -> (c[g + 2] \div 4) + (c[g + 3] % 16) * 16
          [] OTHER     -> (c[g + 3] \div 16) + c[g + 4] * 4

\* The shift byte a 24-character text stores (none in Kid Icarus).
StoredShift(gid, text) ==
    IF gid = "metroid" THEN ByteBig(TextEncode(gid, text), 16) ELSE 0

\* The trailing checksum byte of a 24-character text equals
\* (sum of its payload bytes + shift) mod 256.
ChecksumAgrees(gid, text) ==
    LET c == TextEncode(gid, text)
    IN  IF gid = "metroid"
        THEN ByteBig(c, 17) =
                (SumSeq([k \in 1 .. 16 |-> ByteBig(c, k - 1)]) + ByteBig(c, 16)) % 256
        ELSE ByteLittle(c, 17) =
                SumSeq([k \in 1 .. 17 |-> ByteLittle(c, k - 1)]) % 256

WellFormed(gid, text) == Len(text) = 24 /\ Encodable(gid, text)

\* C1: every 24-character Metroid text that decode accepts, whatever its
\* shift byte, re-encodes to the same text in the 4x6 spaced layout:
\* str(decode(text)) = text.
C1_MetroidTextRoundTrip ==
    (/\ last.op = "str"
     /\ made.gid = "metroid"
     /\ made.fresh
     /\ made.text # None)
        => last.out = Canonical(made.text)

\* C4: decoding a 24-character text succeeds only if its trailing checksum
\* byte equals (sum of the payload bytes + shift) mod 256, the shift being 0
\* in Kid Icarus; where they differ the construction raises InvalidPassword
\* and leaves no object.
C4_DecodeVerifiesChecksum ==
    (last.op = "make" /\ WellFormed(last.gid, TextRead(last.text))) =>
        /\ last.ok => ChecksumAgrees(last.gid, TextRead(last.text))
        /\ ~ChecksumAgrees(last.gid, TextRead(last.text)) =>
              (~last.ok /\ last.err = "InvalidPassword" /\ pw = NoPw)

\* C4's case: a Metroid text with a shift byte and the wrong checksum was
\* refused.
C4_Witness ==
    /\ last.op = "make"
    /\ last.gid = "metroid"
    /\ WellFormed("metroid", TextRead(last.text))
    /\ StoredShift("metroid", TextRead(last.text)) # 0
    /\ ~ChecksumAgrees("metroid", TextRead(last.text))
    /\ ~last.ok

\* C7: flipping any single bit of the payload changes the checksum byte,
\* for every payload, shift and bit position.
C7_BitFlipChangesChecksum ==
    last.op = "flipbit" => Checksum(pw) # Checksum(last.before)

\* C7's case: the top bit of a byte of a shifted Metroid payload was cleared.
C7_Witness ==
    /\ last.op = "flipbit"
    /\ pw.gid = "metroid"
    /\ pw.shift # 0
    /\ last.bit % 8 = 7
    /\ last.before.data[last.bit + 1] = 1

(***************************************************************************)
(* Properties of the bit structure.                                        *)
(***************************************************************************)
\* The value lies outside [mod, mod + 2^width).
OutOfRange(f, v) == v < f.mod \/ v >= f.mod + 2 ^ f.width

\* C5: set(field, value) fails for every value outside
\* [numericOffset, numericOffset + 2^width), and a failed set leaves the bit
\* buffer unchanged.
C5_SetOutOfRangeFails ==
    (/\ last.op = "set"
     /\ last.name \in DOMAIN Fields(pw.gid)
     /\ OutOfRange(Fields(pw.gid)[last.name], last.value))
        => (~last.ok /\ pw.data = last.before.data)

\* C5's case: a value below the numeric offset of a field that has one was
\* written to a password that was set before.
C5_Witness ==
    /\ last.op = "set"
    /\ last.name \in DOMAIN Fields(pw.gid)
    /\ Fields(pw.gid)[last.name].mod # 0
    /\ last.value < Fields(pw.gid)[last.name].mod
    /\ ~made.fresh
    /\ ~last.ok

\* The printed layout: 27 characters, 4 groups of 6 of the alphabet with a
\* space between them.
FourGroupsOfSix(gid, text) ==
    /\ Len(text) = 27
    /\ \A i \in 1 .. 27 :
        IF i \in {7, 14, 21} THEN text[i] = " "
        ELSE text[i] \in Range(Alphabet(gid))

\* C10: a Metroid password, constructed by default or by a successful
\* decode, keeps a payload of exactly 128 bits through every sequence of
\* field reads and writes, failed ones included, and always prints as 24
\* characters in 4 space-separated groups of 6.
C10_MetroidLengths ==
    (pw.state = "live" /\ pw.gid = "metroid") =>
        /\ Len(pw.data) = 128
        /\ FourGroupsOfSix("metroid", Str(pw))
        /\ last.op = "str" => FourGroupsOfSix("metroid", last.out)

\* C10's case: the last bit of a decoded Metroid password was set, and a
\* later write failed.
C10_Witness ==
    /\ pw.state = "live" /\ pw.gid = "metroid"
    /\ made.text # None
    /\ ~made.fresh
    /\ pw.data[128] = 1
    /\ last.op = "set"
    /\ ~last.ok

\* The bit at index i (from 0) lies in the field's slice.
InSlice(f, i) == f.offset <= i /\ i < f.offset + f.width

\* The slices of two fields share a bit.
Overlap(f, g) == f.offset < g.offset + g.width /\ g.offset < f.offset + f.width

\* C12: a successful set(f, v) changes exactly the bits of f's slice:
\* afterwards get(f) = v, every bit outside [offset, offset + width) is as
\* it was, and every field whose slice does not overlap f's reads as before.
C12_SetChangesOnlyItsSlice ==
    (last.op = "set" /\ last.ok) =>
        LET f == Fields(last.gid)[last.name]
        IN  /\ StructGetattr(pw, last.name).ok
            /\ StructGetattr(pw, last.name).val = last.value
            /\ Len(pw.data) = Len(last.before.data)
            /\ \A i \in 0 .. (Len(pw.data) - 1) :
                    ~InSlice(f, i) => pw.data[i + 1] = last.before.data[i + 1]
            /\ pw.shift = last.before.shift
            /\ \A g \in DOMAIN Fields(last.gid) :
                    ~Overlap(f, Fields(last.gid)[g]) =>
                        StructGetattr(pw, g) =
                            [StructGetattr(last.before, g) EXCEPT !.obj = pw]

\* C12's case: a field with a numeric offset was written with a value that
\* changed its bits, in a buffer that holds set bits outside the field.
C12_Witness ==
    /\ last.op = "set" /\ last.ok
    /\ Fields(last.gid)[last.name].mod # 0
    /\ pw.data # last.before.data
    /\ \E i \in 0 .. (Len(pw.data) - 1) :
            ~InSlice(Fields(last.gid)[last.name], i) /\ pw.data[i + 1] = 1

(***************************************************************************)
(* MM2Password (password.py:375-467).  The boss table (game/mm2.tsv) is    *)
(* data outside the source at hand: the rows are the game's, and agree     *)
(* with tests/test_passwords.py (all alive, no tanks: 'A1 B5 C3 C4 D2 D5   *)
(* E1 E2 E4'; all dead, four tanks: 'A5 B2 B4 C1 C3 C5 D4 D5 E2').  A      *)
(* boss's state is kept as Python keeps it after int(): 0 alive, nonzero   *)
(* dead.                                                                   *)
(***************************************************************************)
MM2Boss(alive, dead) == [alive |-> alive, dead |-> dead]

BossOrder == << "bubble", "air", "quick", "heat", "wood", "metal", "flash", "crash" >>

Bosses ==
    [bubble |-> MM2Boss(7, 10),  air   |-> MM2Boss(11, 17),
     quick  |-> MM2Boss(8, 3),   heat  |-> MM2Boss(14, 1),
     wood   |-> MM2Boss(4, 12),  metal |-> MM2Boss(15, 19),
     flash  |-> MM2Boss(18, 5),  crash |-> MM2Boss(16, 9)]

\* ord() of the characters the model's texts are written in.
Ord(ch) ==
    IF ch \in Range(Upper) THEN 64 + (CHOOSE i \in DOMAIN Upper : Upper[i] = ch)
    ELSE IF ch \in Range(Lower) THEN 96 + (CHOOSE i \in DOMAIN Lower : Lower[i] = ch)
    ELSE IF ch \in Range(Digits) THEN 47 + (CHOOSE i \in DOMAIN Digits : Digits[i] = ch)
    ELSE 32

\* Python's sorted() of a list of integers, and of a list of strings (by
\* code point, a proper prefix first).
RECURSIVE InsertInt(_, _)
InsertInt(x, s) ==
    IF s = <<>> THEN <<x>>
    ELSE IF x <= Head(s) THEN <<x>> \o s
    ELSE <<Head(s)>> \o InsertInt(x, Tail(s))

RECURSIVE SortedInts(_)
SortedInts(s) == IF s = <<>> THEN <<>> ELSE InsertInt(Head(s), SortedInts(Tail(s)))

RECURSIVE StrLessEq(_, _)
StrLessEq(a, b) ==
    IF a = <<>> THEN TRUE
    ELSE IF b = <<>> THEN FALSE
    ELSE IF Ord(Head(a)) # Ord(Head(b)) THEN Ord(Head(a)) < Ord(Head(b))
    ELSE StrLessEq(Tail(a), Tail(b))

RECURSIVE InsertStr(_, _)
InsertStr(x, s) ==
    IF s = <<>> THEN <<x>>
    ELSE IF StrLessEq(x, Head(s)) THEN <<x>> \o s
    ELSE <<Head(s)>> \o InsertStr(x, Tail(s))

RECURSIVE SortedStrs(_)
SortedStrs(s) == IF s = <<>> THEN <<>> ELSE InsertStr(Head(s), SortedStrs(Tail(s)))

\* str.split(sep) for a one-character separator.
RECURSIVE Split(_, _)
Split(text, sep) ==
    IF \A i \in DOMAIN text : text[i] # sep THEN <<text>>
    ELSE LET i == CHOOSE j \in DOMAIN text :
                    text[j] = sep /\ \A k \in 1 .. (j - 1) : text[k] # sep
         IN  <<SubSeq(text, 1, i - 1)>> \o Split(SubSeq(text, i + 1, Len(text)), sep)

\* MM2Password.cell2int: raises ValueError for a cell that is not two
\* characters or whose second character int() refuses.
Cell2IntFails(cell) == Len(cell) # 2 \/ cell[2] \notin Range(Digits)

cell2int(cell) ==
    LET row == cell[1]
        col == Ord(cell[2]) - 48
    IN  (Ord(row) - 65) * 5 + (col - 1)

\* MM2Password.int2cell: ascii_uppercase[i // 5] + str(i % 5 + 1); the index
\* is Python's, counted from the end when negative and an IndexError
\* outside the 26 letters.
Int2CellFails(i) == (i \div 5) >= 26 \/ (i \div 5) < -26

int2cell(i) ==
    LET k == i \div 5
    IN  << Upper[IF k >= 0 THEN k + 1 ELSE 26 + k + 1], Digits[(i % 5) + 2] >>

\* A variant of BossState: a boss with no cell is taken to be alive.
BossState_MissingIsAlive(boss, codes) ==
    LET alive == boss.alive \in Range(codes)
        dead  == boss.dead \in Range(codes)
    IN  IF alive /\ dead THEN "schrodinger"
        ELSE IF dead THEN "dead"
        ELSE "alive"

\* One turn of the loop of _load_password over the bosses: what the
\* normalized codes say of a boss.
BossState(boss, codes) ==
    LET alive == boss.alive \in Range(codes)
        dead  == boss.dead \in Range(codes)
    IN  IF alive /\ dead THEN "schrodinger"
        ELSE IF alive THEN "alive"
        ELSE IF dead THEN "dead"
        ELSE "missing"

\* MM2Password._set_defaults
MM2SetDefaults ==
    [state |-> "live", tanks |-> 0, defeated |-> [name \in Range(BossOrder) |-> 0]]

\* MM2Password._load_password, as __init__ runs it on a new object.
MM2LoadPassword(password) ==
    LET cells == Split(password, " ")
    IN  IF \E i \in DOMAIN cells : Cell2IntFails(cells[i])
        THEN Raise("ValueError", "Cells are letter-number pairs", NoMM)
        ELSE
            LET codes == SortedInts([i \in DOMAIN cells |-> cell2int(cells[i])])
            IN  IF Len(codes) # 9 THEN Raise("InvalidPassword", "Wrong length", NoMM)
                ELSE IF codes[1] > 4
                THEN Raise("InvalidPassword", "Tank cell missing", NoMM)
                ELSE
                    LET tanks == codes[1]
                        norm  == [i \in 1 .. 8 |-> (codes[i + 1] - 5 - tanks) % 20]
                        found == [name \in Range(BossOrder) |->
                                    BossState(Bosses[name], norm)]
                    IN  IF \E name \in Range(BossOrder) : found[name] = "schrodinger"
                                                      \/ found[name] = "missing"
                        THEN Raise("InvalidPassword", "boss state", NoMM)
                        ELSE Return([state |-> "live", tanks |-> tanks,
                                     defeated |-> [name \in Range(BossOrder) |->
                                        IF found[name] = "dead" THEN 1 ELSE 0]], 0)

\* MM2Password.__init__: `if password:` takes None and '' to the defaults.
MM2Init(arg) ==
    IF arg = None \/ arg = <<>> THEN Return(MM2SetDefaults, 0)
    ELSE MM2LoadPassword(arg)

\* MM2Password.__getitem__
MM2Getitem(obj, k) ==
    IF k = "tanks" THEN Return(obj, obj.tanks)
    ELSE IF k \notin DOMAIN obj.defeated THEN Raise("KeyError", k, obj)
    ELSE Return(obj, obj.defeated[k])

\* MM2Password.__setitem__: a key that is not 'tanks' is stored in the
\* dictionary of boss states, new or not.
MM2Setitem(obj, k, v) ==
    IF k = "tanks" THEN Return([obj EXCEPT !.tanks = v], 0)
    ELSE Return([obj EXCEPT !.defeated =
                    [name \in (DOMAIN obj.defeated) \cup {k} |->
                        IF name = k THEN v ELSE obj.defeated[name]]], 0)

\* MM2Password.__str__
MM2Str(obj) ==
    LET codepoints ==
            <<obj.tanks>> \o
            [i \in DOMAIN BossOrder |->
                LET boss == Bosses[BossOrder[i]]
                    base == IF obj.defeated[BossOrder[i]] # 0 THEN boss.dead
                            ELSE boss.alive
                IN  ((base + obj.tanks) % 20) + 5]
    IN  IF \E i \in DOMAIN codepoints : Int2CellFails(codepoints[i])
        THEN Raise("IndexError", "", obj)
        ELSE Return(obj, Join(SortedStrs([i \in DOMAIN codepoints |->
                                            int2cell(codepoints[i])]), " "))

(***************************************************************************)
(* The inputs of the combinatorial-cell model.                             *)
(***************************************************************************)
\* The passwords of tests/test_passwords.py, TestMM2.
MM2Known1 == << "A","1"," ","B","5"," ","C","3"," ","C","4"," ","D","2"," ",
                "D","5"," ","E","1"," ","E","2"," ","E","4" >>
MM2Known2 == << "A","5"," ","B","2"," ","B","4"," ","C","1"," ","C","3"," ",
                "C","5"," ","D","4"," ","D","5"," ","E","2" >>

\* The cell of the game's 5x5 grid (and of the row below it) with a code.
GridCell(code) == << Upper[(code \div 5) + 1], Digits[(code % 5) + 2] >>

\* The cells the game shows for a number of tanks and a set of dead bosses,
\* the tank cell first and the bosses in table order.
GameCells(tanks, dead) ==
    <<GridCell(tanks)>> \o
    [i \in DOMAIN BossOrder |->
        GridCell((((IF BossOrder[i] \in dead THEN Bosses[BossOrder[i]].dead
                    ELSE Bosses[BossOrder[i]].alive) + tanks) % 20) + 5)]

TankInputs == 0 .. 4
DeadInputs ==
    { {}, Range(BossOrder), {"heat"}, {"bubble", "air"}, Range(BossOrder) \ {"wood"} }

\* Cells written in place of one cell of a game password: every cell of the
\* grid, the first of a sixth row, and cells cell2int has no code for or
\* takes outside the grid.
OddCells == { <<"F", "1">>, <<"A", "0">>, <<"A">>, <<"A", "1", "0">>, <<"a", "1">>, <<"A", "x">> }
ReplacementCells == { GridCell(code) : code \in 0 .. 24 } \cup OddCells

MM2Texts ==
    { Join(GameCells(t, d), " ") : t \in TankInputs, d \in DeadInputs }
    \cup { Join([GameCells(t, d) EXCEPT ![i] = c], " ") :
             t \in {0, 4}, d \in { {}, {"heat"} }, i \in 1 .. 9, c \in ReplacementCells }
    \cup { Join(SubSeq(GameCells(0, {}), 1, 8), " "),
           Join(GameCells(0, {}) \o << <<"B", "1">> >>, " "),
           MM2Known1 \o <<" ">> }

MM2CodecArgs == { None, <<>>, MM2Known1, MM2Known2 } \cup MM2Texts

MM2FieldArgs == { None, MM2Known2, Join(GameCells(2, {"heat"}), " "),
                  Join(SubSeq(GameCells(0, {}), 1, 8), " ") }

\* The names a caller asks for, and the values it writes.
MM2Names == {"tanks"} \cup Range(BossOrder) \cup {"nosuch"}

MM2Values(name) ==
    IF name = "tanks" THEN {0, 4, 5}
    ELSE IF name = "nosuch" THEN {1}
    ELSE {0, 1, 2}

(***************************************************************************)
(* The combinatorial-cell model: a caller constructs a password, reads and *)
(* writes its entries (pw[name]) and prints it.                            *)
(***************************************************************************)
InitMM2 ==
    /\ mm = NoMM /\ made = NoMade /\ last = NoLast
    /\ pw = NoPw /\ idx = 0 /\ trail = <<>>

MM2MakeFrom(args) ==
    /\ made = NoMade
    /\ \E arg \in args :
        LET r == MM2Init(arg)
        IN  /\ mm' = r.obj
            /\ made' = [gid |-> "mm2", text |-> arg, fresh |-> r.ok, sets |-> 0]
            /\ last' = [op |-> "make", gid |-> "mm2", text |-> arg,
                        ok |-> r.ok, err |-> r.err, why |-> r.why]
    /\ UNCHANGED <<pw, idx, trail>>

MM2MakeCodec == MM2MakeFrom(MM2CodecArgs)

MM2MakeField == MM2MakeFrom(MM2FieldArgs)

MM2DoStr ==
    /\ mm.state = "live"
    /\ LET r == MM2Str(mm)
       IN  last' = [op |-> "str", gid |-> "mm2", ok |-> r.ok, err |-> r.err,
                    out |-> r.val]
    /\ UNCHANGED <<mm, made, pw, idx, trail>>

MM2GetField ==
    /\ mm.state = "live"
    /\ \E name \in MM2Names :
        LET r == MM2Getitem(mm, name)
        IN  last' = [op |-> "get", gid |-> "mm2", via |-> "item", name |-> name,
                     ok |-> r.ok, err |-> r.err, val |-> r.val, before |-> mm]
    /\ UNCHANGED <<mm, made, pw, idx, trail>>

MM2SetField ==
    /\ mm.state = "live"
    /\ made.sets < MaxMM2Sets
    /\ \E name \in MM2Names :
       \E v \in MM2Values(name) :
        LET r == MM2Setitem(mm, name, v)
        IN  /\ mm' = r.obj
            /\ made' = [made EXCEPT !.fresh = made.fresh /\ r.obj = mm,
                                    !.sets = made.sets + 1]
            /\ last' = [op |-> "set", gid |-> "mm2", via |-> "item", name |-> name,
                        value |-> v, ok |-> r.ok, err |-> r.err, before |-> mm]
    /\ UNCHANGED <<pw, idx, trail>>

NextMM2Codec == MM2MakeCodec \/ MM2DoStr

SpecMM2Codec == InitMM2 /\ [][NextMM2Codec]_vars

NextMM2Fields == MM2MakeField \/ MM2GetField \/ MM2SetField \/ MM2DoStr

SpecMM2Fields == InitMM2 /\ [][NextMM2Fields]_vars

(***************************************************************************)
(* Properties of the combinatorial-cell codec.                             *)
(***************************************************************************)
\* The cells of a text.
CellsOf(text) == Split(text, " ")

\* The codes of a list of cells, in ascending order.
CodesOfCells(cells) == SortedInts([i \in DOMAIN cells |-> cell2int(cells[i])])

\* The cells are 9 cells with codes, one of them a tank cell (a code of at
\* most 4).
HasTankAndEight(cells) ==
    /\ Len(cells) = 9
    /\ \A i \in DOMAIN cells : ~Cell2IntFails(cells[i])
    /\ \E i \in DOMAIN cells : cell2int(cells[i]) <= 4

\* The 8 normalized non-tank codes of 9 codes in ascending order:
\* (code - 5 - tanks) mod 20, the tanks being the least code.
Normalized(codes) == { (codes[i] - 5 - codes[1]) % 20 : i \in 2 .. 9 }

\* Every boss has exactly one of its two codes among the normalized codes.
EveryBossOnce(norm) ==
    \A name \in Range(BossOrder) :
        (Bosses[name].alive \in norm) # (Bosses[name].dead \in norm)

\* Some boss has both its codes among the normalized codes.
SomeBossTwice(norm) ==
    \E name \in Range(BossOrder) :
        Bosses[name].alive \in norm /\ Bosses[name].dead \in norm

\* What C3 asks of the outcome of decoding a list of cells.
DecodedByTheRule(cells, ok, err, obj) ==
    /\ ok => (HasTankAndEight(cells)
                /\ EveryBossOnce(Normalized(CodesOfCells(cells))))
    /\ (HasTankAndEight(cells) /\ ~EveryBossOnce(Normalized(CodesOfCells(cells))))
          => (~ok /\ err = "InvalidPassword" /\ obj = NoMM)

\* C2: a cell string that decode accepts comes back from decode then encode
\* as the same 9 cells in sorted order.
C2_MM2TextRoundTrip ==
    (/\ last.op = "str"
     /\ made.gid = "mm2"
     /\ made.fresh
     /\ made.text # None /\ made.text # <<>>)
        => (last.ok /\ last.out = Join(SortedStrs(CellsOf(made.text)), " "))

\* C3: decode succeeds only if every boss has exactly one of its two codes
\* among the 8 normalized non-tank codes; if some boss has both its codes
\* there, or neither, decode fails with InvalidPassword and no password
\* object is returned.
C3_MM2BossStateExclusive ==
    (last.op = "make" /\ last.gid = "mm2" /\ last.text # None /\ last.text # <<>>)
        => DecodedByTheRule(CellsOf(last.text), last.ok, last.err, mm)

\* C3's case: a text in which a boss has both its alive and its dead code
\* was refused.
C3_Witness ==
    /\ last.op = "make" /\ last.gid = "mm2"
    /\ last.text # None /\ last.text # <<>>
    /\ HasTankAndEight(CellsOf(last.text))
    /\ SomeBossTwice(Normalized(CodesOfCells(CellsOf(last.text))))
    /\ ~last.ok

\* C14: every MM2 password reached from the default or from a successful
\* decode by successful sets of tanks and of boss flags prints as 9 distinct
\* cells that decode accepts, and that decode back to the same tanks and
\* the same defeated state of every boss.
C14_SetThenPrintDecodes ==
    (/\ last.op = "str" /\ last.gid = "mm2"
     /\ DOMAIN mm.defeated = Range(BossOrder)) =>
        /\ last.ok
        /\ Len(CellsOf(last.out)) = 9
        /\ Cardinality(Range(CellsOf(last.out))) = 9
        /\ LET r == MM2Init(last.out)
           IN  /\ r.ok
               /\ r.obj.tanks = mm.tanks
               /\ \A name \in Range(BossOrder) :
                      (r.obj.defeated[name] # 0) = (mm.defeated[name] # 0)

(***************************************************************************)
(* Properties of access by name, over the codecs.                          *)
(***************************************************************************)
\* The names of a game's schema.
SchemaNames(gid) ==
    IF gid = "mm2" THEN {"tanks"} \cup Range(BossOrder) ELSE DOMAIN Fields(gid)

\* C6: getting or setting by name a field that the game's schema lacks fails
\* with an error and leaves the password as it was: never a silent no-op,
\* never a silent new entry.
C6_UnknownFieldFails ==
    (last.op \in {"get", "set"} /\ last.name \notin SchemaNames(last.gid)) =>
        /\ ~last.ok
        /\ (IF last.gid = "mm2" THEN mm ELSE pw) = last.before

(***************************************************************************)
(* src/src/util.py: flip_idx_bitorder.                                     *)
(***************************************************************************)
flip_idx_bitorder(index) ==
    LET start_of_byte   == index \div 8
        off_within_byte == index % 8
    IN  start_of_byte + (7 - off_within_byte)

\* The indexes the repository's tests run the helper over: range(100).
FlipRange == 0 .. 99

InitUtil ==
    /\ idx \in FlipRange
    /\ trail = <<idx>>
    /\ pw = NoPw /\ made = NoMade /\ mm = NoMM /\ last = NoLast

\* A caller replaces its index by the flipped one.
Flip ==
    /\ Len(trail) <= MaxFlipSteps
    /\ idx' = flip_idx_bitorder(idx)
    /\ trail' = Append(trail, idx')
    /\ UNCHANGED <<pw, made, mm, last>>

NextUtil == Flip

SpecUtil == InitUtil /\ [][NextUtil]_vars

\* C8: the bit-order index flip is self-inverse: for every index i in 0..99,
\* flip_idx_bitorder(flip_idx_bitorder(i)) = i.
C8_FlipSelfInverse ==
    Len(trail) >= 3 => trail[3] = trail[1]

\* C9: for every index i in 0..99, flip_idx_bitorder(i) lies in the byte of i
\* and mirrors the position within it: (i mod 8) + (flip(i) mod 8) = 7.
C9_FlipSameByteMirrored ==
    Len(trail) >= 2 =>
        /\ trail[2] \div 8 = trail[1] \div 8
        /\ (trail[1] % 8) + (trail[2] % 8) = 7

(***************************************************************************)
(* KidIcarusPassword.level (password.py:256-266): a property over the      *)
(* fields stage, substage and maze, written and read as the text 'S-B'.    *)
(***************************************************************************)
\* int() of a text of decimal digits; it raises ValueError for the empty
\* text and for a character that is not a digit.
IntFails(s) == s = <<>> \/ \E i \in DOMAIN s : s[i] \notin Range(Digits)

DigitValue(ch) == CHOOSE d \in 0 .. 9 : Digits[d + 1] = ch

RECURSIVE ParseInt(_)
ParseInt(s) ==
    IF Len(s) = 1 THEN DigitValue(s[1])
    ELSE 10 * ParseInt(SubSeq(s, 1, Len(s) - 1)) + DigitValue(s[Len(s)])

\* The decimal text of a natural number, as an f-string writes it.
RECURSIVE FormatInt(_)
FormatInt(n) ==
    IF n < 10 THEN <<Digits[n + 1]>>
    ELSE FormatInt(n \div 10) \o <<Digits[(n % 10) + 1]>>

\* The getter: sub = 4 if self.maze else self.substage; f'{stage}-{sub}'.
KidIcarusLevel(obj) ==
    LET maze  == StructGetattr(obj, "maze").val
        sub   == IF maze # 0 THEN 4 ELSE StructGetattr(obj, "substage").val
        stage == StructGetattr(obj, "stage").val
    IN  Return(obj, FormatInt(stage) \o <<"-">> \o FormatInt(sub))

\* The setter's body.  Each of its three assignments goes through
\* Structure.__setattr__, so one that raises leaves the earlier ones stored.
KidIcarusLevelSetter(obj, value) ==
    LET parts == Split(value, "-")
    IN  IF Len(parts) # 2 \/ \E k \in DOMAIN parts : IntFails(parts[k])
        THEN Raise("ValueError", "", obj)
        ELSE LET stage    == ParseInt(parts[1])
                 substage == ParseInt(parts[2])
                 r1 == StructSetattr(obj, "stage", stage)
                 r2 == StructSetattr(r1.obj, "substage",
                                     IF substage = 4 THEN 0 ELSE substage)
             IN  IF ~r1.ok THEN r1
                 ELSE IF ~r2.ok THEN r2
                 ELSE StructSetattr(r2.obj, "maze", IF substage = 4 THEN 1 ELSE 0)

\* pw.level = value and pw['level'] = value on a constructed password.  The
\* class defines __setattr__, so the assignment is Structure.__setattr__'s
\* to decide: _initialized is set, and a name that is not a field is
\* refused there, before any property of the class is looked at.
AssignLevel(obj, via, value) ==
    IF via = "attr" THEN StructSetattr(obj, "level", value)
    ELSE StructSetitem(obj, "level", value)

\* pw.level finds the property on the class (an attribute that is found
\* never reaches __getattr__); pw['level'] is Structure.__getitem__.
ReadLevel(obj, via) ==
    IF via = "attr" THEN KidIcarusLevel(obj)
    ELSE LET r == StructGetitem(obj, "level")
         IN  [r EXCEPT !.val = <<>>]

\* The texts a caller assigns: 'S-B' over the stages and sub-stages, and
\* two that are not of that form.
LevelStages    == { 1, 2, 4 }
LevelSubstages == { 0, 1, 3, 4 }
LevelText(s, b) == FormatInt(s) \o <<"-">> \o FormatInt(b)
LevelValues ==
    { LevelText(s, b) : s \in LevelStages, b \in LevelSubstages }
        \cup { <<"3">>, <<"a", "-", "1">> }

MakeLevel == MakeFrom("ki", FieldArgs("ki"))

SetLevel ==
    /\ pw.state = "live"
    /\ \E via \in Access, value \in LevelValues :
        LET r == AssignLevel(pw, via, value)
        IN  /\ pw' = r.obj
            /\ made' = [made EXCEPT !.fresh = made.fresh /\ r.obj = pw]
            /\ last' = [op |-> "setlevel", gid |-> pw.gid, via |-> via,
                        value |-> value, ok |-> r.ok, err |-> r.err,
                        before |-> pw]
    /\ UNCHANGED <<mm, idx, trail>>

GetLevel ==
    /\ pw.state = "live"
    /\ \E via \in Access :
        LET r == ReadLevel(pw, via)
        IN  last' = [op |-> "getlevel", gid |-> pw.gid, via |-> via,
                     ok |-> r.ok, err |-> r.err, val |-> r.val, before |-> pw]
    /\ UNCHANGED <<pw, made, mm, idx, trail>>

NextLevel == MakeLevel \/ SetField \/ SetLevel \/ GetLevel

SpecLevel == InitStruct /\ [][NextLevel]_vars

\* A text 'S-B' of two numbers.
IsLevelText(value) ==
    /\ Len(Split(value, "-")) = 2
    /\ \A k \in 1 .. 2 : ~IntFails(Split(value, "-")[k])

\* C11: on an initialized Kid Icarus password, assigning 'S-B' to level
\* succeeds and stores stage = S and, for B = 4, substage = 0 with maze = 1,
\* otherwise substage = B with maze = 0; level then reads back as 'S-B'.
C11_LevelAssignmentStores ==
    (last.op = "setlevel" /\ last.via = "attr" /\ IsLevelText(last.value)) =>
        LET S == ParseInt(Split(last.value, "-")[1])
            B == ParseInt(Split(last.value, "-")[2])
        IN  /\ last.ok
            /\ StructGetattr(pw, "stage").val = S
            /\ StructGetattr(pw, "substage").val = (IF B = 4 THEN 0 ELSE B)
            /\ StructGetattr(pw, "maze").val = (IF B = 4 THEN 1 ELSE 0)
            /\ KidIcarusLevel(pw).val = last.value
(***************************************************************************)
(* SolarJetmanPassword (password.py:281-371): eight plain integer          *)
(* attributes, printed as 12 characters of a 16-character set.  The        *)
(* object is kept in pw, with gid "sj".                                    *)
(***************************************************************************)
\* Python's ^ and | on natural numbers.
RECURSIVE BitXor(_, _)
BitXor(a, b) ==
    IF a = 0 THEN b
    ELSE IF b = 0 THEN a
    ELSE ((a + b) % 2) + 2 * BitXor(a \div 2, b \div 2)

RECURSIVE BitOr(_, _)
BitOr(a, b) ==
    IF a = 0 THEN b
    ELSE IF b = 0 THEN a
    ELSE Max(a % 2, b % 2) + 2 * BitOr(a \div 2, b \div 2)

charset == << "B","D","G","H","K","L","M","N","P","Q","R","T","V","W","X","Z" >>

defaultpw == [i \in 1 .. 12 |-> "B"]

\* The keys __iter__ yields.
SJKeys ==
    { "level", "score", "ship", "lives", "map", "supermap", "thrusters", "shields" }

\* __init__: the characters are looked up in charset (ValueError for one
\* that is not there) and every attribute is set to 0.
SJInit(arg) ==
    LET password == IF arg = None THEN defaultpw ELSE arg
    IN  IF \E i \in DOMAIN password : password[i] \notin Range(charset)
        THEN Raise("ValueError", "substring not found", NoPw)
        ELSE Return([state |-> "live", gid |-> "sj", level |-> 0, score |-> 0,
                     ship |-> 0, lives |-> 0, map |-> 0, supermap |-> 0,
                     thrusters |-> 0, shields |-> 0], 0)

\* scoredigit(i): i = 0 is the least significant digit.
scoredigit(obj, i) == (obj.score \div (10 ^ i)) % 10

\* A variant of SJCodepoints: the second sum's overflow is not added back
\* into the first.
SJCodepoints_NoWrap(obj) ==
    LET cp0  == obj.lives
        cp1  == scoredigit(obj, 0)
        cp2  == obj.level \div 4
        cp4  == scoredigit(obj, 2)
        cp5  == scoredigit(obj, 1)
        cp6  == scoredigit(obj, 3)
        cp7  == scoredigit(obj, 4)
        cp8  == BitOr(BitOr((obj.level % 4) * 4, obj.map * 2), obj.supermap)
        cp10 == BitOr(BitOr(obj.ship * 4, obj.shields * 2), obj.thrusters)
        cp11 == scoredigit(obj, 5)
        chk1 == BitXor(BitXor(cp0, cp1) + cp2, cp4) + cp5
        chk2 == BitXor(BitXor(cp6, cp7) + cp8, cp10) + cp11
                    + (IF chk1 >= 16 THEN 1 ELSE 0)
    IN  << cp0, cp1, cp2, chk1 % 16, cp4, cp5,
           cp6, cp7, cp8, chk2 % 16, cp10, cp11 >>

\* codepoints.  In Python + binds tighter than ^ and << tighter than |, so
\* chk1 is ((((cp0 ^ cp1) + cp2) ^ cp4) + cp5), and likewise chk2.
SJCodepoints(obj) ==
    LET cp0  == obj.lives
        cp1  == scoredigit(obj, 0)
        cp2  == obj.level \div 4
        cp4  == scoredigit(obj, 2)
        cp5  == scoredigit(obj, 1)
        cp6  == scoredigit(obj, 3)
        cp7  == scoredigit(obj, 4)
        cp8  == BitOr(BitOr((obj.level % 4) * 4, obj.map * 2), obj.supermap)
        cp10 == BitOr(BitOr(obj.ship * 4, obj.shields * 2), obj.thrusters)
        cp11 == scoredigit(obj, 5)
        chk1a == BitXor(BitXor(cp0, cp1) + cp2, cp4) + cp5
        chk2  == BitXor(BitXor(cp6, cp7) + cp8, cp10) + cp11
                    + (IF chk1a >= 16 THEN 1 ELSE 0)
        chk1  == chk1a + (chk2 \div 16)
    IN  << cp0, cp1, cp2, chk1 % 16, cp4, cp5,
           cp6, cp7, cp8, chk2 % 16, cp10, cp11 >>

\* __str__: charset[cp] for each codepoint; IndexError for one above 15.
SJStr(obj) ==
    LET cp == SJCodepoints(obj)
    IN  IF \E k \in DOMAIN cp : cp[k] > 15
        THEN Raise("IndexError", "string index out of range", obj)
        ELSE Return(obj, [k \in DOMAIN cp |-> charset[cp[k] + 1]])

\* __setitem__: 'k in self' reads self[k], which is getattr(self, k): it
\* raises AttributeError for a name the object lacks, so the KeyError
\* branch is not reached for it.  A key of the object is set to int(v),
\* whatever the value.
SJSetitem(obj, k, v) ==
    IF k \notin SJKeys THEN Raise("AttributeError", "", obj)
    ELSE Return([obj EXCEPT ![k] = v], 0)
\* What a caller constructs the password from, and the keys and values it
\* sets: the ends of each range, values between, one value past the end.
SJArgs == { None, defaultpw, [i \in 1 .. 12 |-> "Z"], [defaultpw EXCEPT ![5] = "A"] }

SJNames == SJKeys \cup { "nosuch" }

SJValues(k) ==
    IF k = "lives" THEN { 0, 9, 15, 16 }
    ELSE IF k = "score" THEN { 0, 7, 90, 123456, 500000, 999999 }
    ELSE IF k = "level" THEN { 0, 5, 15 }
    ELSE IF k = "ship" THEN { 0, 3 }
    ELSE { 0, 1 }

SJMake ==
    /\ made = NoMade
    /\ \E arg \in SJArgs :
        LET r == SJInit(arg)
        IN  /\ pw' = r.obj
            /\ made' = [gid |-> "sj", text |-> arg, fresh |-> r.ok, flipped |-> FALSE]
            /\ last' = [op |-> "make", gid |-> "sj", text |-> arg,
                        ok |-> r.ok, err |-> r.err, why |-> r.why]
    /\ UNCHANGED <<mm, idx, trail>>

SJSet ==
    /\ pw.state = "live"
    /\ \E k \in SJNames :
       \E v \in SJValues(k) :
        LET r == SJSetitem(pw, k, v)
        IN  /\ pw' = r.obj
            /\ made' = [made EXCEPT !.fresh = made.fresh /\ r.obj = pw]
            /\ last' = [op |-> "sjset", gid |-> "sj", name |-> k, value |-> v,
                        ok |-> r.ok, err |-> r.err]
    /\ UNCHANGED <<mm, idx, trail>>

SJDoStr ==
    /\ pw.state = "live"
    /\ LET r == SJStr(pw)
       IN  last' = [op |-> "sjstr", gid |-> "sj", ok |-> r.ok, err |-> r.err,
                    out |-> r.val]
    /\ UNCHANGED <<pw, made, mm, idx, trail>>

NextSJ == SJMake \/ SJSet \/ SJDoStr

SpecSJ == InitStruct /\ [][NextSJ]_vars

(***************************************************************************)
(* Properties of the digit-checksum codec.                                 *)
(***************************************************************************)
\* The state the claim is about: every attribute within its range.
SJInRange(obj) ==
    /\ obj.lives \in 0 .. 15 /\ obj.score \in 0 .. 999999
    /\ obj.level \in 0 .. 15 /\ obj.ship \in 0 .. 3
    /\ \A k \in { "map", "supermap", "thrusters", "shields" } : obj[k] \in { 0, 1 }

\* The 12 characters of the 16-character set.
TwelveSymbols(out) == Len(out) = 12 /\ \A i \in 1 .. 12 : out[i] \in Range(charset)

\* The digit a printed character stands for, and the digit in slot k (from
\* 0) of a printed password.
SymbolIndex(ch) == CHOOSE d \in 0 .. 15 : charset[d + 1] = ch
Digit(out, k) == SymbolIndex(out[k + 1])

\* The XOR/add fold over five digits.
Fold(a, b, c, d, e) == BitXor(BitXor(a, b) + c, d) + e
FirstSum(out) ==
    Fold(Digit(out, 0), Digit(out, 1), Digit(out, 2), Digit(out, 4), Digit(out, 5))
SecondSum(out) ==
    Fold(Digit(out, 6), Digit(out, 7), Digit(out, 8), Digit(out, 10), Digit(out, 11))
\* The carry out of the first sum: 1 when it does not fit 4 bits.
FirstCarry(out) == IF FirstSum(out) >= 16 THEN 1 ELSE 0

\* C13 as stated: for every state within the ranges, encode yields 12
\* characters of the 16-character set, slot 3 is the low 4 bits of the fold
\* over digits 0, 1, 2, 4, 5 alone, and slot 9 is the low 4 bits of the fold
\* over digits 6, 7, 8, 10, 11 plus the carry out of the first sum.
C13_ChecksumSlotsAsStated ==
    (last.op = "sjstr" /\ SJInRange(pw)) =>
        /\ last.ok
        /\ TwelveSymbols(last.out)
        /\ Digit(last.out, 3) = FirstSum(last.out) % 16
        /\ Digit(last.out, 9) = (SecondSum(last.out) + FirstCarry(last.out)) % 16

\* C13 amended: slot 9 is as stated, and slot 3 is the low 4 bits of the
\* first fold plus what the second sum, carry included, holds above 4 bits.
C13_ChecksumSlots ==
    (last.op = "sjstr" /\ SJInRange(pw)) =>
        /\ last.ok
        /\ TwelveSymbols(last.out)
        /\ Digit(last.out, 9) = (SecondSum(last.out) + FirstCarry(last.out)) % 16
        /\ Digit(last.out, 3) =
              (FirstSum(last.out)
                  + ((SecondSum(last.out) + FirstCarry(last.out)) \div 16)) % 16

\* C13's case: a state within the ranges was printed, its first sum carries
\* and its second sum, carry included, does not fit 4 bits.
C13_Witness ==
    /\ last.op = "sjstr" /\ SJInRange(pw) /\ last.ok
    /\ pw.score = 999999
    /\ FirstSum(last.out) >= 16
    /\ SecondSum(last.out) + FirstCarry(last.out) >= 16
=============================================================================
